---- MODULE Spec2Model ----
(***************************************************************************)
(* Octahedral impostors: the atlas hook (useOctahedralAtlas), the bake     *)
(* loop (generateAtlas), the octahedral geometry builder and sampling      *)
(* cache (octahedralHelper / octahedralImpostorMath) and the per-frame     *)
(* direction update of OctahedralImpostor.                                 *)
(*                                                                         *)
(* Five specifications share the variables below; each one drives its own  *)
(* group and leaves the other groups in their constructed state:           *)
(*   Spec      the atlas hook: effects, promise jobs, the two module maps  *)
(*   SpecLive  Spec with the microtask queue always drained                *)
(*   SpecFrame the impostor instance: sampling-cache memo and useFrame     *)
(*   SpecMath  the pure geometry / sampling functions on drawn inputs      *)
(*   SpecBake  the cell loop of generateAtlas                              *)
(***************************************************************************)
EXTENDS Integers, Sequences, FiniteSets, TLC

VARIABLES
  \* ---- useOctahedralAtlas.js, module state and hook state
  atlasCache,            \* Map: cache key -> atlas payload
  pendingAtlasPromises,  \* Map: cache key -> bake whose atlasPromise is stored
  sourceId,              \* mesh.userData.__impostorSourceId per mesh ("" = unset)
  uuidCount,             \* number of THREE.MathUtils.generateUUID() calls so far
  bakes,                 \* one record per generateAtlas call (its atlasPromise)
  jobs,                  \* the promise job (microtask) queue, FIFO
  inst,                  \* per hook instance: atlas, error, isGenerating; its request's key, bake, mesh
  effects                \* number of effect runs so far

atlasVars == <<atlasCache, pendingAtlasPromises, sourceId, uuidCount, bakes, jobs, inst, effects>>

VARIABLES
  \* ---- inputs and results of the pure functions (SpecMath)
  mIn,                   \* the drawn inputs: octType, gridSize, direction
  mDone,                 \* which functions have been applied
  mMesh,                 \* result of buildOctahedralMesh
  mSample,               \* result of getSamplingCache + sampleOctahedralDirection
  mTrip,                 \* encodeDirectionToOctUV followed by the fold of octType
  mBary,                 \* computeBarycentric2D on a drawn triangle, and its clamp tail
  mSel                   \* triangle selection on a drawn cell and local point

mathVars == <<mIn, mDone, mMesh, mSample, mTrip, mBary, mSel>>

VARIABLES
  \* ---- octahedralImpostorMath module state and one OctahedralImpostor (SpecFrame)
  samplingCache,         \* Map: `${octType}_${gridSize}` -> cache object
  cacheBuilds,           \* cache objects constructed so far (object identities)
  fProps,                \* props of the instance: octType, gridSize, threshold
  fSampling,             \* the instance's useMemo samplingCache
  lastDirectionRef,      \* lastDirectionRef.current (0 = null)
  faceIndicesRef,        \* faceIndicesRef.current
  faceWeightsRef,        \* faceWeightsRef.current
  nodeMaterial,          \* the useMemo material and its two uniforms
  fAtlas,                \* the hook's atlas is non-null
  fGenerating,           \* the hook's isGenerating
  lastCall,              \* the latest getSamplingCache call: its key, whether the map had it, whether it threw
  frame                  \* what the latest useFrame callback did

frameVars == <<samplingCache, cacheBuilds, fProps, fSampling, lastDirectionRef,
               faceIndicesRef, faceWeightsRef, nodeMaterial, fAtlas, fGenerating, lastCall, frame>>

VARIABLES
  \* ---- one run of generateAtlas, cell by cell (SpecBake)
  bakeIn,                \* its arguments: gridSize, atlasSize, octType
  rowIdx, colIdx,        \* the loop variables
  canvas,                \* the atlas canvas: pixel -> lattice point last put there (0 = transparent)
  views,                 \* the cells rendered so far: direction read, pixel position
  readbackFailures,      \* cells whose read-back threw
  bakePhase              \* "idle", "setup", "cells", "done" or "thrown"

bakeVars == <<bakeIn, rowIdx, colIdx, canvas, views, readbackFailures, bakePhase>>

vars == <<atlasVars, mathVars, frameVars, bakeVars>>

----------------------------------------------------------------------------
(* Bounds of the atlas model *)

\* hook instances mounted
NumInstances == 2
\* generateAtlas calls explored
MaxBakes == 2
\* effect runs explored
MaxEffects == 3

Instances == 1..NumInstances

(* The source meshes handed to the hook: "tree" carries a name, "anon" has *)
(* an empty name, so both branches of buildAtlasCacheKey are taken;        *)
(* "treeB" is another mesh whose name is also "tree".                      *)
Meshes == {"tree", "treeB", "anon"}
NoMesh == "null"

MeshName(m) == IF m \in {"tree", "treeB"} THEN "tree" ELSE ""

\* THREE.MathUtils.generateUUID(): the n-th call returns a fresh identifier
UUIDs == <<"uuid-1", "uuid-2">>

\* grid sizes the atlas requests use
AtlasGridSizes == {2}
\* props left at one value in the atlas model (atlasSize, octType = OCT_TYPE.HEMI)
AtlasSizeProp == 4
HEMI == 0
FULL == 1

NullAtlas == [texture |-> 0, gridSize |-> 0, octType |-> 0]
NoError == 0
EmptyMap == [k \in {} |-> 0]

\* Map.has / Map.set / Map.delete on a TLA+ function whose domain is the key set
MapHas(map, k) == k \in DOMAIN map
MapSet(map, k, v) == [x \in (DOMAIN map) \cup {k} |-> IF x = k THEN v ELSE map[x]]
MapDelete(map, k) == [x \in (DOMAIN map) \ {k} |-> map[x]]

----------------------------------------------------------------------------
(* buildAtlasCacheKey *)

\* the identifier the key is built from; assigned on first use
SourceIdFor(m) ==
  IF sourceId[m] # "" THEN sourceId[m]
  ELSE IF MeshName(m) # "" THEN MeshName(m)
  ELSE UUIDs[uuidCount + 1]

\* `${id}|g${gridSize}|a${atlasSize}|o${octType}` as a tuple
buildAtlasCacheKey(m, g, a, o) == <<SourceIdFor(m), g, a, o>>

\* the mesh.userData write of buildAtlasCacheKey
SourceIdAfter(m) == [sourceId EXCEPT ![m] = SourceIdFor(m)]
UuidCountAfter(m) ==
  IF sourceId[m] = "" /\ MeshName(m) = "" THEN uuidCount + 1 ELSE uuidCount

----------------------------------------------------------------------------
(* The hook's effect *)

\* mutant of HasCached: the cache is never consulted
HasCachedNever(k) == FALSE

HasCached(k) == MapHas(atlasCache, k)

\* mutant of HasPending: the pending map is never consulted
HasPendingNever(k) == FALSE

HasPending(k) == MapHas(pendingAtlasPromises, k)

\* the payload the success handler of bake b builds
AtlasPayload(b) == [texture |-> b, gridSize |-> bakes[b].gridSize, octType |-> bakes[b].octType]

\* Effects run synchronously inside a commit, one per instance; the promise
\* jobs they queue run when the commit's task ends and then run to the end of
\* the queue (generateAtlas has no await, so its promise is settled when it
\* returns and the whole chain of reactions is in one drain).  An effect of
\* instance i can therefore run only while no job has run yet in this drain
\* (every queued job is still a "generated" one) and no handler of i is queued.
EffectMayRun(i) ==
  /\ \A n \in 1..Len(jobs) : jobs[n].type = "generated" /\ jobs[n].inst # i
  /\ \A b \in 1..Len(bakes) :
       bakes[b].status = "pending" => \A n \in 1..Len(bakes[b].reactions) : bakes[b].reactions[n] # i

\* setAtlas(null); return   (enabled false, no mesh, or no octahedral data)
EffectDisabled(i) ==
  /\ effects < MaxEffects
  /\ EffectMayRun(i)
  /\ \E m \in Meshes \cup {NoMesh}, en \in BOOLEAN :
       /\ (~en \/ m = NoMesh)
       /\ inst' = [inst EXCEPT ![i].atlas = NullAtlas, ![i].req = <<>>, ![i].src = 0,
                               ![i].mesh = NoMesh]
  /\ effects' = effects + 1
  /\ UNCHANGED <<atlasCache, pendingAtlasPromises, sourceId, uuidCount, bakes, jobs>>
  /\ UNCHANGED <<mathVars, frameVars, bakeVars>>

\* the key is cached: serve the cached payload
EffectCached(i) ==
  /\ effects < MaxEffects
  /\ EffectMayRun(i)
  /\ \E m \in Meshes, g \in AtlasGridSizes :
       LET k == buildAtlasCacheKey(m, g, AtlasSizeProp, HEMI) IN
       /\ HasCached(k)
       /\ inst' = [inst EXCEPT ![i].atlas = atlasCache[k], ![i].isGenerating = FALSE,
                               ![i].error = NoError, ![i].req = k, ![i].src = 0,
                               ![i].mesh = m]
       /\ sourceId' = SourceIdAfter(m)
       /\ uuidCount' = UuidCountAfter(m)
  /\ effects' = effects + 1
  /\ UNCHANGED <<atlasCache, pendingAtlasPromises, bakes, jobs>>
  /\ UNCHANGED <<mathVars, frameVars, bakeVars>>

\* the key is pending: attach then/catch to the stored promise.  A reaction on
\* a promise that is already settled is queued at once.
EffectAttach(i) ==
  /\ effects < MaxEffects
  /\ EffectMayRun(i)
  /\ \E m \in Meshes, g \in AtlasGridSizes :
       LET k == buildAtlasCacheKey(m, g, AtlasSizeProp, HEMI) IN
       /\ ~HasCached(k)
       /\ HasPending(k)
       /\ LET b == pendingAtlasPromises[k] IN
          /\ inst' = [inst EXCEPT ![i].isGenerating = TRUE, ![i].error = NoError,
                                  ![i].req = k, ![i].src = b, ![i].mesh = m]
          /\ IF bakes[b].status = "pending"
               THEN /\ bakes' = [bakes EXCEPT ![b].reactions = Append(@, i)]
                    /\ jobs' = jobs
               ELSE /\ bakes' = bakes
                    /\ jobs' = Append(jobs, [type |-> "attachedThen", bake |-> b, inst |-> i])
       /\ sourceId' = SourceIdAfter(m)
       /\ uuidCount' = UuidCountAfter(m)
  /\ effects' = effects + 1
  /\ UNCHANGED <<atlasCache, pendingAtlasPromises>>
  /\ UNCHANGED <<mathVars, frameVars, bakeVars>>

\* neither cached nor pending: call generateAtlas, chain the handlers, store the
\* promise, register finally.  generateAtlas has no await: its promise is settled
\* when it returns, so the handler job is queued by the effect itself.
EffectGenerate(i) ==
  /\ effects < MaxEffects
  /\ EffectMayRun(i)
  /\ Len(bakes) < MaxBakes
  /\ \E m \in Meshes, g \in AtlasGridSizes :
       LET k == buildAtlasCacheKey(m, g, AtlasSizeProp, HEMI)
           b == Len(bakes) + 1 IN
       /\ ~HasCached(k)
       /\ ~HasPending(k)
       /\ inst' = [inst EXCEPT ![i].isGenerating = TRUE, ![i].error = NoError,
                               ![i].req = k, ![i].src = b, ![i].mesh = m]
       /\ bakes' = Append(bakes, [key |-> k, mesh |-> m, gridSize |-> g, octType |-> HEMI, origin |-> i,
                                   status |-> "pending", reactions |-> <<>>])
       /\ jobs' = Append(jobs, [type |-> "generated", bake |-> b, inst |-> i])
       /\ pendingAtlasPromises' = MapSet(pendingAtlasPromises, k, b)
       /\ sourceId' = SourceIdAfter(m)
       /\ uuidCount' = UuidCountAfter(m)
  /\ effects' = effects + 1
  /\ UNCHANGED atlasCache
  /\ UNCHANGED <<mathVars, frameVars, bakeVars>>

\* OctahedralImpostor renders the flat placeholder, not the billboard:
\* if (isGenerating || !atlas || !nodeMaterial); nodeMaterial is null exactly
\* when atlas is
RendersPlaceholder(i) == inst[i].isGenerating \/ inst[i].atlas = NullAtlas

----------------------------------------------------------------------------
(* Promise jobs *)

\* mutant of ReactionJobs: the reactions of the attached requesters are lost
ReactionJobsFinallyOnly(b) ==
  <<[type |-> "finally", bake |-> b, inst |-> bakes[b].origin]>>

\* the jobs queued when atlasPromise of bake b settles: finally was registered
\* by the originating effect, before any attacher
ReactionJobs(b) ==
  <<[type |-> "finally", bake |-> b, inst |-> bakes[b].origin]>>
  \o [n \in 1..Len(bakes[b].reactions) |->
        [type |-> "attachedThen", bake |-> b, inst |-> bakes[b].reactions[n]]]

\* mutant of CacheAfterSuccess: the payload is stored under no key
CacheAfterSuccessDropped(b) == atlasCache

\* atlasCache.set(cacheKey, atlasPayload)
CacheAfterSuccess(b) == MapSet(atlasCache, bakes[b].key, AtlasPayload(b))

\* generateAtlas resolved: the success handler of the originating effect
BakeResolved ==
  /\ jobs # <<>>
  /\ Head(jobs).type = "generated"
  /\ LET b == Head(jobs).bake
         i == Head(jobs).inst IN
     /\ atlasCache' = CacheAfterSuccess(b)
     /\ inst' = [inst EXCEPT ![i].atlas = AtlasPayload(b), ![i].isGenerating = FALSE]
     /\ bakes' = [bakes EXCEPT ![b].status = "resolved"]
     /\ jobs' = Tail(jobs) \o ReactionJobs(b)
  /\ UNCHANGED <<pendingAtlasPromises, sourceId, uuidCount, effects>>
  /\ UNCHANGED <<mathVars, frameVars, bakeVars>>

\* generateAtlas rejected (no 2D context, renderer construction failure): the
\* failure handler of the originating effect, which rethrows
BakeRejected ==
  /\ jobs # <<>>
  /\ Head(jobs).type = "generated"
  /\ LET b == Head(jobs).bake
         i == Head(jobs).inst IN
     /\ inst' = [inst EXCEPT ![i].error = b, ![i].isGenerating = FALSE]
     /\ bakes' = [bakes EXCEPT ![b].status = "rejected"]
     /\ jobs' = Tail(jobs) \o ReactionJobs(b)
  /\ UNCHANGED <<atlasCache, pendingAtlasPromises, sourceId, uuidCount, effects>>
  /\ UNCHANGED <<mathVars, frameVars, bakeVars>>

\* mutant of PendingAfterFinally: the pending entry is left in place
PendingAfterFinallyKept(b) == pendingAtlasPromises

\* pendingAtlasPromises.delete(cacheKey)
PendingAfterFinally(b) == MapDelete(pendingAtlasPromises, bakes[b].key)

\* atlasPromise.finally(...)
BakeFinally ==
  /\ jobs # <<>>
  /\ Head(jobs).type = "finally"
  /\ pendingAtlasPromises' = PendingAfterFinally(Head(jobs).bake)
  /\ jobs' = Tail(jobs)
  /\ UNCHANGED <<atlasCache, sourceId, uuidCount, bakes, inst, effects>>
  /\ UNCHANGED <<mathVars, frameVars, bakeVars>>

\* pendingPromise.then(...) of an attacher, promise resolved
AttachedResolved ==
  /\ jobs # <<>>
  /\ Head(jobs).type = "attachedThen"
  /\ bakes[Head(jobs).bake].status = "resolved"
  /\ LET b == Head(jobs).bake
         i == Head(jobs).inst IN
     inst' = [inst EXCEPT ![i].atlas = atlasCache[bakes[b].key], ![i].isGenerating = FALSE]
  /\ jobs' = Tail(jobs)
  /\ UNCHANGED <<atlasCache, pendingAtlasPromises, sourceId, uuidCount, bakes, effects>>
  /\ UNCHANGED <<mathVars, frameVars, bakeVars>>

\* pendingPromise.then(...) of an attacher, promise rejected: the rejection
\* passes through then and reaches catch one job later
AttachedPassThrough ==
  /\ jobs # <<>>
  /\ Head(jobs).type = "attachedThen"
  /\ bakes[Head(jobs).bake].status = "rejected"
  /\ jobs' = Append(Tail(jobs), [Head(jobs) EXCEPT !.type = "attachedCatch"])
  /\ UNCHANGED <<atlasCache, pendingAtlasPromises, sourceId, uuidCount, bakes, inst, effects>>
  /\ UNCHANGED <<mathVars, frameVars, bakeVars>>

\* .catch(...) of an attacher
AttachedRejected ==
  /\ jobs # <<>>
  /\ Head(jobs).type = "attachedCatch"
  /\ LET b == Head(jobs).bake
         i == Head(jobs).inst IN
     inst' = [inst EXCEPT ![i].error = b, ![i].isGenerating = FALSE]
  /\ jobs' = Tail(jobs)
  /\ UNCHANGED <<atlasCache, pendingAtlasPromises, sourceId, uuidCount, bakes, effects>>
  /\ UNCHANGED <<mathVars, frameVars, bakeVars>>

----------------------------------------------------------------------------
(* octahedralHelper.js: the geometry builder                               *)
(*                                                                         *)
(* Coordinates are exact fixed-point integers: a value v is held as        *)
(* v * one, where `one` is the integer that stands for 1.0 (2*gridSize for *)
(* lattice points, 2*FixedOne for encoded UVs).  A folded point is held    *)
(* before its division by its length m > 0 and its scaling by radius 0.5:  *)
(* both keep the direction, and directions are all the properties below    *)
(* compare.                                                                *)

Abs(v) == IF v < 0 THEN -v ELSE v
Sign(v) == IF v > 0 THEN 1 ELSE IF v < 0 THEN -1 ELSE 0
Max(a, b) == IF a >= b THEN a ELSE b
Min(a, b) == IF a <= b THEN a ELSE b

OctTypes == {HEMI, FULL}

\* the unit of lattice coordinates for a grid of n cells: xi / n - 0.5 = (2 xi - n) / (2 n)
GridOne(n) == 2 * n

\* the coordinate marker of a NaN point: with xCells = 0 the increment
\* width / xCells is Infinity and xi * xInc = 0 * Infinity is NaN
NaNCoord == -1

\* createGrid(xCells, yCells): (yCells+1) rows of (xCells+1) points, row by row;
\* for (yi = 0; yi <= yCells; ...) pushes nothing when a cell count is negative
createGrid(xCells, yCells) ==
  [k \in 1..(IF xCells < 0 \/ yCells < 0 THEN 0 ELSE (xCells + 1) * (yCells + 1)) |->
     LET yi == (k - 1) \div (xCells + 1)
         xi == (k - 1) % (xCells + 1)
     IN <<IF xCells = 0 THEN NaNCoord ELSE 2 * xi - xCells, 0,
          IF yCells = 0 THEN NaNCoord ELSE 2 * yi - yCells>>]

\* the value of (Math.floor(x / xHalf) + Math.floor(y / yHalf)) % 2 when a half
\* is 0 (gridSize 1): 0/0 and x/0 give NaN or Infinity, and the sum % 2 is NaN
NaN == -1

octPlaneAlt(x, y, xHalf, yHalf) ==
  IF xHalf = 0 \/ yHalf = 0 THEN NaN ELSE ((x \div xHalf) + (y \div yHalf)) % 2

\* mutant of octPlaneCell: the second triangle repeats corner b for corner d
octPlaneCellDegenerate(isFull, x, y, xCells, yCells) ==
  LET xLen == xCells + 1
      a == xLen * y + x
      b == xLen * (y + 1) + x
      c == xLen * (y + 1) + x + 1
  IN <<a, b, c, c, b, a>>

\* the six indices octPlaneIndices pushes for cell (x, y)
octPlaneCell(isFull, x, y, xCells, yCells) ==
  LET xLen == xCells + 1
      xHalf == xCells \div 2
      yHalf == yCells \div 2
      r0 == xLen * y
      r1 == xLen * (y + 1)
      a == r0 + x
      b == r1 + x
      c == r1 + x + 1
      d == r0 + x + 1
  IN IF octPlaneAlt(x, y, xHalf, yHalf) = isFull
       THEN <<a, b, c, c, d, a>>
       ELSE <<d, a, b, b, c, d>>

\* for (y = 0; y < yCells; ...) pushes nothing when a cell count is not positive
octPlaneIndices(isFull, xCells, yCells) ==
  [k \in 1..(IF xCells <= 0 \/ yCells <= 0 THEN 0 ELSE 6 * xCells * yCells) |->
     LET cell == (k - 1) \div 6
     IN octPlaneCell(isFull, cell % xCells, cell \div xCells, xCells, yCells)[((k - 1) % 6) + 1]]

\* octHemi on one point <<x, 0, z>> held in units of 1/one; the point of a
\* grid of 0 cells (one = 0) is NaN and stays NaN
octHemiPoint(p, one) ==
  LET ox == p[1] + one \div 2
      oy == p[3] + one \div 2
      x == ox - oy
      z == ox + oy - one
      y == one - Abs(x) - Abs(z)
  IN IF one = 0 THEN <<NaNCoord, NaNCoord, NaNCoord>> ELSE <<x, y, z>>

\* octFull on one point <<x, 0, z>> held in units of 1/one
octFullPoint(p, one) ==
  LET u == p[1] * 2
      v == p[3] * 2
      y0 == one - Abs(u) - Abs(v)
      x1 == Sign(u) * (one - Abs(v))
      z1 == Sign(v) * (one - Abs(u))
  IN IF one = 0 THEN <<NaNCoord, NaNCoord, NaNCoord>>
     ELSE IF y0 < 0
       THEN <<x1, one - Abs(x1) - Abs(z1), z1>>
       ELSE <<u, y0, v>>

\* buildOctahedralMesh(octType, gridSize); an unknown octType throws
buildOctahedralMesh(octType, gridSize) ==
  LET pntPlane == createGrid(gridSize, gridSize)
      indices == octPlaneIndices(octType, gridSize, gridSize)
  IN IF octType = HEMI
       THEN [ok |-> TRUE, pntPlane |-> pntPlane, indices |-> indices,
             pntOct |-> [k \in DOMAIN pntPlane |-> octHemiPoint(pntPlane[k], GridOne(gridSize))]]
     ELSE IF octType = FULL
       THEN [ok |-> TRUE, pntPlane |-> pntPlane, indices |-> indices,
             pntOct |-> [k \in DOMAIN pntPlane |-> octFullPoint(pntPlane[k], GridOne(gridSize))]]
     ELSE [ok |-> FALSE, pntPlane |-> <<>>, indices |-> <<>>, pntOct |-> <<>>]

----------------------------------------------------------------------------
(* octahedralImpostorMath: direction encoding, barycentric weights, the    *)
(* sampling cache and the lookup                                           *)
(*                                                                         *)
(* A view direction is the unit vector of an integer vector w; the code's  *)
(* x / (|x|+|y|+|z| + 1e-9) on the unit vector equals                      *)
(* w.x / (L1(w) + 1e-9 * |w|).  Encoded values are kept to six decimals    *)
(* (FixedOne), truncated toward zero: the 1e-9 in the divisor makes every  *)
(* nonzero quotient strictly smaller in magnitude than w.x / L1(w), so an  *)
(* exact quotient truncates to one unit less.                              *)

\* 1.0 in six-decimal fixed point
FixedOne == 1000000
\* 1.0 in the unit of encoded UVs ( nx * 0.5 + 0.5 has half units )
UvOne == 2 * FixedOne
\* the clamp 0.999999 of the local coordinates, in UvOne units
LocalMax == 2 * 999999

L1(w) == Abs(w[1]) + Abs(w[2]) + Abs(w[3])

\* c * invSum for component c of w, in FixedOne units
OctNormalize(c, w) ==
  IF c = 0 THEN 0 ELSE Sign(c) * ((Abs(c) * FixedOne - 1) \div L1(w))

\* mutant of encodeDirectionToOctUV: the lower hemisphere is mirrored
\* without the fold 1 - |n|
encodeDirectionToOctUVUnfolded(w) ==
  LET nx == OctNormalize(w[1], w)
      ny == OctNormalize(w[2], w)
      nz == OctNormalize(w[3], w)
      signX == IF nx >= 0 THEN 1 ELSE -1
      signZ == IF nz >= 0 THEN 1 ELSE -1
      fx == IF ny < 0 THEN (FixedOne + Abs(nz)) * signX ELSE nx
      fz == IF ny < 0 THEN (FixedOne + Abs(nx)) * signZ ELSE nz
  IN <<fx + FixedOne, fz + FixedOne>>

\* encodeDirectionToOctUV: <<u, v>> in UvOne units
encodeDirectionToOctUV(w) ==
  LET nx == OctNormalize(w[1], w)
      ny == OctNormalize(w[2], w)
      nz == OctNormalize(w[3], w)
      signX == IF nx >= 0 THEN 1 ELSE -1
      signZ == IF nz >= 0 THEN 1 ELSE -1
      fx == IF ny < 0 THEN (FixedOne - Abs(nz)) * signX ELSE nx
      fz == IF ny < 0 THEN (FixedOne - Abs(nx)) * signZ ELSE nz
  IN <<fx + FixedOne, fz + FixedOne>>

\* target.set(1 / 3, 1 / 3, 1 / 3): weights are exact fractions num[k] / den
EqualThirds == [num |-> <<1, 1, 1>>, den |-> 3]

\* mutant of BarycentricNormalize: the third clamped component is left out of
\* the sum
BarycentricNormalizeDropsW(u, v, w) ==
  LET clampedU == Max(u, 0)
      clampedV == Max(v, 0)
      clampedW == Max(w, 0)
      sum == clampedU + clampedV
  IN IF sum <= 0 THEN EqualThirds
     ELSE [num |-> <<clampedU, clampedV, clampedW>>, den |-> sum]

\* the clamp-and-normalise tail of computeBarycentric2D
BarycentricNormalize(u, v, w) ==
  LET clampedU == Max(u, 0)
      clampedV == Max(v, 0)
      clampedW == Max(w, 0)
      sum == clampedU + clampedV + clampedW
  IN IF sum <= 0 THEN EqualThirds
     ELSE [num |-> <<clampedU, clampedV, clampedW>>, den |-> sum]

\* mutant of computeBarycentric2D: a degenerate triangle gives all the weight
\* to its first corner
computeBarycentric2DFirstCorner(px, py, triangleUV, one) ==
  LET ax == triangleUV[1][1]
      ay == triangleUV[1][2]
      v0x == triangleUV[2][1] - ax
      v0y == triangleUV[2][2] - ay
      v1x == triangleUV[3][1] - ax
      v1y == triangleUV[3][2] - ay
      v2x == px - ax * one
      v2y == py - ay * one
      denom == v0x * v1y - v1x * v0y
      v == (v2x * v1y - v1x * v2y) * Sign(denom)
      w == (v0x * v2y - v2x * v0y) * Sign(denom)
      u == Abs(denom) * one - v - w
  IN IF denom = 0 THEN [num |-> <<1, 0, 0>>, den |-> 1] ELSE BarycentricNormalize(u, v, w)

\* computeBarycentric2D(px, py, triangleUV): px, py in units of 1/one, the
\* corners of triangleUV integers.  With integer corners |denom| < 1e-9 is
\* denom = 0; v, w and u are scaled by |denom| * one, which the final division
\* by their sum cancels.
computeBarycentric2D(px, py, triangleUV, one) ==
  LET ax == triangleUV[1][1]
      ay == triangleUV[1][2]
      v0x == triangleUV[2][1] - ax
      v0y == triangleUV[2][2] - ay
      v1x == triangleUV[3][1] - ax
      v1y == triangleUV[3][2] - ay
      v2x == px - ax * one
      v2y == py - ay * one
      denom == v0x * v1y - v1x * v0y
      v == (v2x * v1y - v1x * v2y) * Sign(denom)
      w == (v0x * v2y - v2x * v0y) * Sign(denom)
      u == Abs(denom) * one - v - w
  IN IF denom = 0 THEN EqualThirds ELSE BarycentricNormalize(u, v, w)

\* u, v and w of computeBarycentric2D before the clamp, each scaled by
\* |denom| * one; <<0, 0, 0>> for a degenerate triangle
BarycentricUVW(px, py, triangleUV, one) ==
  LET ax == triangleUV[1][1]
      ay == triangleUV[1][2]
      v0x == triangleUV[2][1] - ax
      v0y == triangleUV[2][2] - ay
      v1x == triangleUV[3][1] - ax
      v1y == triangleUV[3][2] - ay
      v2x == px - ax * one
      v2y == py - ay * one
      denom == v0x * v1y - v1x * v0y
      v == (v2x * v1y - v1x * v2y) * Sign(denom)
      w == (v0x * v2y - v2x * v0y) * Sign(denom)
      u == Abs(denom) * one - v - w
  IN IF denom = 0 THEN <<0, 0, 0>> ELSE <<u, v, w>>

BackslashUV == << <<<<0, 0>>, <<0, 1>>, <<1, 1>>>>, <<<<1, 1>>, <<1, 0>>, <<0, 0>>>> >>
SlashUV == << <<<<1, 0>>, <<0, 0>>, <<0, 1>>>>, <<<<0, 1>>, <<1, 1>>, <<1, 0>>>> >>

\* mutant of SamplingCell: every cell is given the backslash triangulation
SamplingCellAllBackslash(indexArray, cursor, stride) ==
  LET tri1 == <<indexArray[cursor + 1], indexArray[cursor + 2], indexArray[cursor + 3]>>
      tri2 == <<indexArray[cursor + 4], indexArray[cursor + 5], indexArray[cursor + 6]>>
      isBackslash == tri1[2] - tri1[1] = stride /\ tri1[3] - tri1[2] = 1
  IN [isBackslash |-> isBackslash,
      triangles |-> <<[indices |-> tri1, uv |-> BackslashUV[1]],
                      [indices |-> tri2, uv |-> BackslashUV[2]]>>]

\* the cell record buildSamplingCache stores for the cell at `cursor`
SamplingCell(indexArray, cursor, stride) ==
  LET tri1 == <<indexArray[cursor + 1], indexArray[cursor + 2], indexArray[cursor + 3]>>
      tri2 == <<indexArray[cursor + 4], indexArray[cursor + 5], indexArray[cursor + 6]>>
      isBackslash == tri1[2] - tri1[1] = stride /\ tri1[3] - tri1[2] = 1
      uv == IF isBackslash THEN BackslashUV ELSE SlashUV
  IN [isBackslash |-> isBackslash,
      triangles |-> <<[indices |-> tri1, uv |-> uv[1]], [indices |-> tri2, uv |-> uv[2]]>>]

\* the cache object buildSamplingCache builds on a miss; with gridSize <= 0
\* the loops fill no cell
NewSamplingCache(octType, gridSize) ==
  LET indexArray == buildOctahedralMesh(octType, gridSize).indices
  IN [gridSize |-> gridSize, octType |-> octType,
      cells |-> [n \in 1..(IF gridSize <= 0 THEN 0 ELSE gridSize * gridSize) |->
                   SamplingCell(indexArray, 6 * (n - 1), gridSize + 1)]]

\* mutant of SelectTriangle: the first triangle is always taken
SelectTriangleFirst(cell, localU, localV) == cell.triangles[1]

\* the triangle of the cell that sampleOctahedralDirection selects
SelectTriangle(cell, localU, localV) ==
  IF cell.isBackslash /\ localU > localV THEN cell.triangles[2]
  ELSE IF ~cell.isBackslash /\ localU + localV > UvOne THEN cell.triangles[2]
  ELSE cell.triangles[1]

\* sampleOctahedralDirection on a non-null cache: what it writes to
\* indicesTarget and weightsTarget, and the cell it looked at
sampleOctahedralDirection(w, cache) ==
  LET uv == encodeDirectionToOctUV(w)
      gridSize == cache.gridSize
      scaledU == uv[1] * gridSize
      scaledV == uv[2] * gridSize
      col == Min(Max(scaledU \div UvOne, 0), gridSize - 1)
      row == Min(Max(scaledV \div UvOne, 0), gridSize - 1)
      localU == Min(Max(scaledU - col * UvOne, 0), LocalMax)
      localV == Min(Max(scaledV - row * UvOne, 0), LocalMax)
      n == row * gridSize + col + 1
  IN IF n \notin DOMAIN cache.cells
       THEN [ok |-> FALSE, indices |-> <<0, 0, 0>>, weights |-> EqualThirds,
             row |-> row, col |-> col]
       ELSE LET triangle == SelectTriangle(cache.cells[n], localU, localV)
            IN [ok |-> TRUE, indices |-> triangle.indices,
                weights |-> computeBarycentric2D(localU, localV, triangle.uv, UvOne),
                row |-> row, col |-> col]

----------------------------------------------------------------------------
(* SpecMath: the pure functions applied to drawn inputs *)

\* largest gridSize drawn
MaxGrid == 3
\* view directions are the integer vectors with coordinates in -MaxDirCoord..MaxDirCoord
MaxDirCoord == 2

DirCoords == (-MaxDirCoord)..MaxDirCoord
Directions == {<<x, y, z>> : x \in DirCoords, y \in DirCoords, z \in DirCoords}

NoMeshYet == [ok |-> FALSE, pntPlane |-> <<>>, indices |-> <<>>, pntOct |-> <<>>]
NoSampleYet == [ok |-> FALSE, indices |-> <<0, 0, 0>>, weights |-> EqualThirds, row |-> 0, col |-> 0]

\* the fold of the geometry builder for octType applied to an encoded UV
FoldOfUV(octType, uv) ==
  LET p == <<uv[1] - FixedOne, 0, uv[2] - FixedOne>>
  IN IF octType = HEMI THEN octHemiPoint(p, UvOne) ELSE octFullPoint(p, UvOne)

\* triangles given to computeBarycentric2D: the two halves of a unit cell, a
\* clockwise one, and three degenerate ones (a point, two collinear triples)
BaryTriangles ==
  { << <<0, 0>>, <<0, 1>>, <<1, 1>> >>,
    << <<0, 1>>, <<1, 1>>, <<1, 0>> >>,
    << <<0, 0>>, <<1, 1>>, <<0, 1>> >>,
    << <<0, 0>>, <<0, 0>>, <<0, 0>> >>,
    << <<0, 0>>, <<1, 0>>, <<2, 0>> >>,
    << <<0, 1>>, <<1, 0>>, <<2, -1>> >> }

NoBaryYet == [triangleUV |-> <<>>, weights |-> EqualThirds, tail |-> EqualThirds]

\* scaled - col for a scaled coordinate at the (c + MaxDirCoord)-th of the
\* 2 * MaxDirCoord equal steps across a cell, clamped as
\* sampleOctahedralDirection clamps localU and localV
LocalOf(c) == Min(Max(((c + MaxDirCoord) * UvOne) \div (2 * MaxDirCoord), 0), LocalMax)

NoCell == [isBackslash |-> FALSE, triangles |-> <<>>]
NoSelYet == [cache |-> [gridSize |-> 0, octType |-> HEMI, cells |-> <<>>],
             cell |-> NoCell, localU |-> 0, localV |-> 0, picked |-> 0,
             uvw |-> <<0, 0, 0>>, other |-> <<0, 0, 0>>, weights |-> EqualThirds]

IdleMath ==
  /\ mIn = [octType |-> HEMI, gridSize |-> 1, dir |-> <<0, 1, 0>>]
  /\ mDone = {}
  /\ mMesh = NoMeshYet
  /\ mSample = NoSampleYet
  /\ mTrip = <<0, 0, 0>>
  /\ mBary = NoBaryYet
  /\ mSel = NoSelYet

InitMath ==
  /\ mIn \in [octType : OctTypes, gridSize : 1..MaxGrid, dir : Directions]
  /\ mDone = {}
  /\ mMesh = NoMeshYet
  /\ mSample = NoSampleYet
  /\ mTrip = <<0, 0, 0>>
  /\ mBary = NoBaryYet
  /\ mSel = NoSelYet

MathBuildMesh ==
  /\ "mesh" \notin mDone
  /\ mMesh' = buildOctahedralMesh(mIn.octType, mIn.gridSize)
  /\ mDone' = mDone \cup {"mesh"}
  /\ UNCHANGED <<mIn, mSample, mTrip, mBary, mSel>>

MathSample ==
  /\ "sample" \notin mDone
  /\ mSample' = sampleOctahedralDirection(mIn.dir, NewSamplingCache(mIn.octType, mIn.gridSize))
  /\ mDone' = mDone \cup {"sample"}
  /\ UNCHANGED <<mIn, mMesh, mTrip, mBary, mSel>>

MathRoundTrip ==
  /\ "trip" \notin mDone
  /\ mTrip' = FoldOfUV(mIn.octType, encodeDirectionToOctUV(mIn.dir))
  /\ mDone' = mDone \cup {"trip"}
  /\ UNCHANGED <<mIn, mMesh, mSample, mBary, mSel>>

\* computeBarycentric2D on the point (dir.x, dir.z) and a drawn triangle, and
\* its clamp-and-normalise tail on the components (dir.x, dir.y, dir.z)
MathBarycentric(triangleUV) ==
  /\ "bary" \notin mDone
  /\ mBary' = [triangleUV |-> triangleUV,
               weights |-> computeBarycentric2D(mIn.dir[1], mIn.dir[3], triangleUV, 1),
               tail |-> BarycentricNormalize(mIn.dir[1], mIn.dir[2], mIn.dir[3])]
  /\ mDone' = mDone \cup {"bary"}
  /\ UNCHANGED <<mIn, mMesh, mSample, mTrip, mSel>>

\* the triangle selection and weights of sampleOctahedralDirection on a cell
\* of the cache (picked by dir.y) at the local point (LocalOf(dir.x),
\* LocalOf(dir.z)).  The applications are independent of one another; this
\* one is made after the other four.
MathSelect ==
  /\ mDone = {"mesh", "sample", "trip", "bary"}
  /\ \E cache \in {NewSamplingCache(mIn.octType, mIn.gridSize)} :
       LET cell == cache.cells[((mIn.dir[2] + MaxDirCoord) % (mIn.gridSize * mIn.gridSize)) + 1]
           localU == LocalOf(mIn.dir[1])
           localV == LocalOf(mIn.dir[3])
           picked == IF SelectTriangle(cell, localU, localV) = cell.triangles[1] THEN 1 ELSE 2
       IN mSel' = [cache |-> cache,
                   cell |-> cell, localU |-> localU, localV |-> localV, picked |-> picked,
                   uvw |-> BarycentricUVW(localU, localV, cell.triangles[picked].uv, UvOne),
                   other |-> BarycentricUVW(localU, localV, cell.triangles[3 - picked].uv, UvOne),
                   weights |-> computeBarycentric2D(localU, localV,
                                 SelectTriangle(cell, localU, localV).uv, UvOne)]
  /\ mDone' = mDone \cup {"select"}
  /\ UNCHANGED <<mIn, mMesh, mSample, mTrip, mBary>>

NextMath ==
  \/ MathSelect /\ UNCHANGED <<atlasVars, frameVars, bakeVars>>
  \/ \E t \in BaryTriangles : MathBarycentric(t) /\ UNCHANGED <<atlasVars, frameVars, bakeVars>>
  \/ MathBuildMesh /\ UNCHANGED <<atlasVars, frameVars, bakeVars>>
  \/ MathSample /\ UNCHANGED <<atlasVars, frameVars, bakeVars>>
  \/ MathRoundTrip /\ UNCHANGED <<atlasVars, frameVars, bakeVars>>

----------------------------------------------------------------------------
(* SpecFrame: getSamplingCache's memo table and one OctahedralImpostor     *)
(*                                                                         *)
(* View directions of frames are the eight unit vectors of the x-y great   *)
(* circle at multiples of pi/4, so that the angle between two of them is   *)
(* an exact number of pi/4 units.  A dot product of two unit vectors and a *)
(* cosine are held exactly as <<p, q>> meaning p / sqrt(q).                *)

\* (octType, gridSize) pairs outside the documented configuration that a
\* caller passes to getSamplingCache
BadConfigs == {<<2, 2>>, <<HEMI, 0>>}

\* grid sizes the instance is given
FrameGridSizes == {2}
\* directionThresholdRadians in units of pi/4; -1 and 5 lie outside [0, pi]
FrameThresholds == {-1, 0, 1, 4, 5}
\* Math.PI in units of pi/4
PiUnits == 4

GreatCircle ==
  << <<1, 0, 0>>, <<1, 1, 0>>, <<0, 1, 0>>, <<-1, 1, 0>>,
     <<-1, 0, 0>>, <<-1, -1, 0>>, <<0, -1, 0>>, <<1, -1, 0>> >>
\* the view directions frames are given: the half circle from (1,0,0) to (-1,0,0)
FrameDirs == 1..5

\* the angle between two frame directions, in units of pi/4
DirAngle(a, b) == Min(Abs(a - b), 8 - Abs(a - b))

\* Math.cos(k * pi/4) for k in 0..4, as p / sqrt(q)
CosUnits(k) ==
  IF k = 0 THEN <<1, 1>>
  ELSE IF k = 1 THEN <<1, 2>>
  ELSE IF k = 2 THEN <<0, 1>>
  ELSE IF k = 3 THEN <<-1, 2>>
  ELSE <<-1, 1>>

\* a.dot(b) of the normalized vectors of a and b, as p / sqrt(q)
UnitDot(a, b) ==
  <<a[1] * b[1] + a[2] * b[2] + a[3] * b[3],
    (a[1] * a[1] + a[2] * a[2] + a[3] * a[3]) * (b[1] * b[1] + b[2] * b[2] + b[3] * b[3])>>

\* r >= s for r = p1/sqrt(q1), s = p2/sqrt(q2)
RootGE(r, s) ==
  IF r[1] >= 0 /\ s[1] <= 0 THEN TRUE
  ELSE IF r[1] < 0 /\ s[1] >= 0 THEN FALSE
  ELSE IF r[1] >= 0 THEN r[1] * r[1] * s[2] >= s[1] * s[1] * r[2]
  ELSE r[1] * r[1] * s[2] <= s[1] * s[1] * r[2]

\* directionThresholdDot = Math.cos(clamp(directionThresholdRadians, 0, Math.PI))
directionThresholdDot(threshold) == CosUnits(Min(Max(threshold, 0), PiUnits))

\* if (dot >= directionThresholdDot) return
WithinThreshold(last, dir, threshold) ==
  RootGE(UnitDot(GreatCircle[last], GreatCircle[dir]), directionThresholdDot(threshold))

SamplingKey(octType, gridSize) == <<octType, gridSize>>

\* mutant of SamplingCacheHas: the memo table is never hit
SamplingCacheHasNever(key) == FALSE

\* samplingCache.has(key)
SamplingCacheHas(key) == MapHas(samplingCache, key)

\* buildSamplingCache threw: the key is absent and buildOctahedralMesh throws
SamplingCacheThrows(octType, gridSize) ==
  /\ ~SamplingCacheHas(SamplingKey(octType, gridSize))
  /\ ~buildOctahedralMesh(octType, gridSize).ok

\* buildSamplingCache: the memo table after the call
SamplingCacheAfter(octType, gridSize) ==
  IF SamplingCacheHas(SamplingKey(octType, gridSize)) THEN samplingCache
  ELSE IF SamplingCacheThrows(octType, gridSize) THEN samplingCache
  ELSE MapSet(samplingCache, SamplingKey(octType, gridSize),
              [id |-> cacheBuilds + 1, cache |-> NewSamplingCache(octType, gridSize)])

CacheBuildsAfter(octType, gridSize) ==
  IF SamplingCacheHas(SamplingKey(octType, gridSize)) \/ SamplingCacheThrows(octType, gridSize)
    THEN cacheBuilds ELSE cacheBuilds + 1

\* the first triangle of octahedralData.geometry.index
FirstTriangle(octType, gridSize) ==
  LET indices == buildOctahedralMesh(octType, gridSize).indices
  IN <<indices[1], indices[2], indices[3]>>

NoMaterial == [present |-> FALSE, faceIndices |-> <<0, 0, 0>>, faceWeights |-> EqualThirds]

\* the atlas cell <<row, col>> the fragment shader addresses for flat index i:
\* row = floor(flatIndex / gridSize), col = flatIndex - row * gridSize
ShaderCell(flatIndex, gridSize) ==
  <<flatIndex \div gridSize, flatIndex - (flatIndex \div gridSize) * gridSize>>

\* the material the nodeMaterial useMemo creates
NewMaterial(octType, gridSize) ==
  [present |-> TRUE, faceIndices |-> FirstTriangle(octType, gridSize), faceWeights |-> EqualThirds]

NoFrame == [kind |-> "none", last |-> 0, dir |-> 0]

\* billboardRef.current is set while the billboard branch is rendered
Billboard == ~fGenerating /\ fAtlas /\ nodeMaterial.present

\* a render with a new (octType, gridSize): the samplingCache and
\* octahedralData memos are recomputed, their effects reset lastDirectionRef
\* and the face refs, the hook's effect finds the new key cached or not, and
\* the material is recreated for the new octahedralData
FrameSetProps(octType, gridSize) ==
  /\ <<octType, gridSize>> # <<fProps.octType, fProps.gridSize>>
  /\ fProps' = [fProps EXCEPT !.octType = octType, !.gridSize = gridSize]
  /\ samplingCache' = SamplingCacheAfter(octType, gridSize)
  /\ cacheBuilds' = CacheBuildsAfter(octType, gridSize)
  /\ fSampling' = samplingCache'[SamplingKey(octType, gridSize)]
  /\ lastCall' = [key |-> SamplingKey(octType, gridSize),
                  hit |-> SamplingCacheHas(SamplingKey(octType, gridSize)),
                  threw |-> SamplingCacheThrows(octType, gridSize)]
  /\ lastDirectionRef' = IF fSampling' # fSampling THEN 0 ELSE lastDirectionRef
  /\ faceIndicesRef' = FirstTriangle(octType, gridSize)
  /\ faceWeightsRef' = EqualThirds
  /\ \E cached \in BOOLEAN :
       /\ fAtlas' = (cached \/ fAtlas)
       /\ fGenerating' = ~cached
  /\ nodeMaterial' = IF fAtlas' THEN NewMaterial(octType, gridSize) ELSE NoMaterial
  /\ frame' = NoFrame

\* the bake of the instance's key resolved: atlas changes, the material is recreated
FrameAtlasResolved ==
  /\ fGenerating
  /\ fAtlas' = TRUE
  /\ fGenerating' = FALSE
  /\ nodeMaterial' = NewMaterial(fProps.octType, fProps.gridSize)
  /\ frame' = NoFrame
  /\ UNCHANGED <<samplingCache, cacheBuilds, lastCall, fProps, fSampling, lastDirectionRef,
                 faceIndicesRef, faceWeightsRef>>

\* the bake of the instance's key failed: error set, atlas and material kept
FrameAtlasFailed ==
  /\ fGenerating
  /\ fGenerating' = FALSE
  /\ frame' = NoFrame
  /\ UNCHANGED <<samplingCache, cacheBuilds, lastCall, fProps, fSampling, lastDirectionRef,
                 faceIndicesRef, faceWeightsRef, nodeMaterial, fAtlas>>

\* a material prop (alphaTest, roughness, metalness, envMapIntensity) changed
FrameMaterialProps ==
  /\ nodeMaterial.present
  /\ nodeMaterial' = NewMaterial(fProps.octType, fProps.gridSize)
  /\ frame' = NoFrame
  /\ UNCHANGED <<samplingCache, cacheBuilds, lastCall, fProps, fSampling, lastDirectionRef,
                 faceIndicesRef, faceWeightsRef, fAtlas, fGenerating>>

\* TreeOctahedralImpostorField (or another instance) calls getSamplingCache
FieldGetSamplingCache(octType, gridSize) ==
  /\ samplingCache' = SamplingCacheAfter(octType, gridSize)
  /\ cacheBuilds' = CacheBuildsAfter(octType, gridSize)
  /\ lastCall' = [key |-> SamplingKey(octType, gridSize),
                  hit |-> SamplingCacheHas(SamplingKey(octType, gridSize)),
                  threw |-> SamplingCacheThrows(octType, gridSize)]
  /\ frame' = NoFrame
  /\ UNCHANGED <<fProps, fSampling, lastDirectionRef, faceIndicesRef, faceWeightsRef,
                 nodeMaterial, fAtlas, fGenerating>>

\* the useFrame callback with view direction GreatCircle[dir]
UseFrame(dir) ==
  /\ UNCHANGED <<samplingCache, cacheBuilds, lastCall, fProps, fSampling, fAtlas, fGenerating>>
  /\ IF ~Billboard
       THEN /\ frame' = [kind |-> "returned", last |-> lastDirectionRef, dir |-> dir]
            /\ UNCHANGED <<lastDirectionRef, faceIndicesRef, faceWeightsRef, nodeMaterial>>
     ELSE IF lastDirectionRef # 0 /\ WithinThreshold(lastDirectionRef, dir, fProps.threshold)
       THEN /\ frame' = [kind |-> "skipped", last |-> lastDirectionRef, dir |-> dir]
            /\ UNCHANGED <<lastDirectionRef, faceIndicesRef, faceWeightsRef, nodeMaterial>>
     ELSE LET res == sampleOctahedralDirection(GreatCircle[dir], fSampling.cache) IN
          IF ~res.ok
            THEN /\ frame' = [kind |-> "failed", last |-> lastDirectionRef, dir |-> dir]
                 /\ UNCHANGED <<lastDirectionRef, faceIndicesRef, faceWeightsRef, nodeMaterial>>
            ELSE /\ faceIndicesRef' = res.indices
                 /\ faceWeightsRef' = res.weights
                 /\ nodeMaterial' = [nodeMaterial EXCEPT !.faceIndices = res.indices,
                                                         !.faceWeights = res.weights]
                 /\ lastDirectionRef' = dir
                 /\ frame' = [kind |-> "updated", last |-> lastDirectionRef, dir |-> dir]

\* the instance before it is mounted: nothing built
IdleFrame ==
  /\ samplingCache = EmptyMap
  /\ cacheBuilds = 0
  /\ fProps = [octType |-> HEMI, gridSize |-> 2, threshold |-> 0]
  /\ fSampling = [id |-> 0, cache |-> [gridSize |-> 0, octType |-> HEMI, cells |-> <<>>]]
  /\ lastDirectionRef = 0
  /\ faceIndicesRef = <<0, 0, 0>>
  /\ faceWeightsRef = EqualThirds
  /\ nodeMaterial = NoMaterial
  /\ fAtlas = FALSE
  /\ fGenerating = FALSE
  /\ lastCall = [key |-> SamplingKey(HEMI, 2), hit |-> FALSE, threw |-> FALSE]
  /\ frame = NoFrame

\* the instance after its first render and effects: its sampling cache built,
\* the face refs on the first triangle, its atlas being generated
InitFrame ==
  /\ fProps \in [octType : OctTypes, gridSize : FrameGridSizes, threshold : FrameThresholds]
  /\ cacheBuilds = 1
  /\ fSampling = [id |-> 1, cache |-> NewSamplingCache(fProps.octType, fProps.gridSize)]
  /\ samplingCache = [k \in {SamplingKey(fProps.octType, fProps.gridSize)} |-> fSampling]
  /\ lastDirectionRef = 0
  /\ faceIndicesRef = FirstTriangle(fProps.octType, fProps.gridSize)
  /\ faceWeightsRef = EqualThirds
  /\ nodeMaterial = NoMaterial
  /\ fAtlas = FALSE
  /\ fGenerating = TRUE
  /\ lastCall = [key |-> SamplingKey(fProps.octType, fProps.gridSize), hit |-> FALSE, threw |-> FALSE]
  /\ frame = NoFrame

NextFrame ==
  \/ \E t \in OctTypes, n \in FrameGridSizes : FrameSetProps(t, n) /\ UNCHANGED <<atlasVars, mathVars, bakeVars>>
  \/ FrameAtlasResolved /\ UNCHANGED <<atlasVars, mathVars, bakeVars>>
  \/ FrameAtlasFailed /\ UNCHANGED <<atlasVars, mathVars, bakeVars>>
  \/ FrameMaterialProps /\ UNCHANGED <<atlasVars, mathVars, bakeVars>>
  \/ \E t \in OctTypes, n \in FrameGridSizes : FieldGetSamplingCache(t, n) /\ UNCHANGED <<atlasVars, mathVars, bakeVars>>
  \/ \E c \in BadConfigs : FieldGetSamplingCache(c[1], c[2]) /\ UNCHANGED <<atlasVars, mathVars, bakeVars>>
  \/ \E d \in FrameDirs : UseFrame(d) /\ UNCHANGED <<atlasVars, mathVars, bakeVars>>

----------------------------------------------------------------------------
(* SpecBake: the cell loop of generateAtlas                                *)
(*                                                                         *)
(* The canvas is a map from pixel <<x, y>> to the lattice point            *)
(* (1 + row * (gridSize + 1) + col) whose rendered block was last put on   *)
(* the pixel; a rendered block is taken to be non-empty.                   *)

\* largest gridSize of a bake
MaxBakeGrid == 2
\* largest atlasSize of a bake, in pixels
MaxAtlasSize == 4
\* read-back failures injected into one bake
MaxReadbackFailures == 1

Pixels(atlasSize) == (0..(atlasSize - 1)) \X (0..(atlasSize - 1))

\* const cellSize = Math.floor((atlasSize / numCells) * 1.0)
cellSize(atlasSize, numCells) == atlasSize \div numCells

\* Math.floor((colIdx / numCells) * atlasSize)
pixelAt(idx, numCells, atlasSize) == (idx * atlasSize) \div numCells

\* const flatIdx = rowIdx * numCells + colIdx
flatIdxOf(row, col, numCells) == row * numCells + col

\* ctx.putImageData(cellImageData, pixelX, pixelY): pixels outside the canvas are dropped
putImageData(cv, tag, pixelX, pixelY, size) ==
  [px \in DOMAIN cv |->
     IF /\ pixelX <= px[1] /\ px[1] < pixelX + size
        /\ pixelY <= px[2] /\ px[2] < pixelY + size
       THEN tag ELSE cv[px]]

\* colIdx++, and rowIdx++ at the end of a row
NextCell ==
  IF colIdx < bakeIn.gridSize
    THEN rowIdx' = rowIdx /\ colIdx' = colIdx + 1
    ELSE rowIdx' = rowIdx + 1 /\ colIdx' = 0

\* mutant of ReadbackFailurePhase: the error of a cell leaves generateAtlas
ReadbackFailurePhaseThrown == "thrown"

\* catch (err) { console.warn(...); continue; }: the loop goes on
ReadbackFailurePhase == "cells"

\* one iteration of the loop body; readOk = render and readPixels did not throw
BakeCell(readOk) ==
  LET numCells == bakeIn.gridSize
      pntOct == buildOctahedralMesh(bakeIn.octType, bakeIn.gridSize).pntOct
      flatIdx == flatIdxOf(rowIdx, colIdx, numCells)
      pixelX == pixelAt(colIdx, numCells, bakeIn.atlasSize)
      pixelY == pixelAt(rowIdx, numCells, bakeIn.atlasSize)
  IN /\ bakePhase = "cells"
     /\ rowIdx <= numCells
     /\ NextCell
     /\ UNCHANGED bakeIn
     /\ IF flatIdx * 3 + 2 >= 3 * Len(pntOct)
          THEN UNCHANGED <<canvas, views, readbackFailures, bakePhase>>
        ELSE IF ~readOk
          THEN /\ bakePhase' = ReadbackFailurePhase
               /\ views' = Append(views, [row |-> rowIdx, col |-> colIdx, flatIdx |-> flatIdx,
                                          viewDir |-> pntOct[flatIdx + 1],
                                          pixelX |-> pixelX, pixelY |-> pixelY, put |-> FALSE])
               /\ readbackFailures' = readbackFailures + 1
               /\ UNCHANGED canvas
        ELSE /\ views' = Append(views, [row |-> rowIdx, col |-> colIdx, flatIdx |-> flatIdx,
                                        viewDir |-> pntOct[flatIdx + 1],
                                        pixelX |-> pixelX, pixelY |-> pixelY, put |-> TRUE])
             /\ canvas' = putImageData(canvas, 1 + rowIdx * (numCells + 1) + colIdx,
                                      pixelX, pixelY, cellSize(bakeIn.atlasSize, numCells))
             /\ UNCHANGED <<readbackFailures, bakePhase>>

BakeCellComposited == BakeCell(TRUE)

BakeCellReadbackFailed ==
  /\ readbackFailures < MaxReadbackFailures
  /\ BakeCell(FALSE)

\* canvas.getContext("2d") and the WebGLRenderer were obtained
BakeSetup ==
  /\ bakePhase = "setup"
  /\ bakePhase' = "cells"
  /\ UNCHANGED <<bakeIn, rowIdx, colIdx, canvas, views, readbackFailures>>

\* no 2D context (throw new Error) or the WebGLRenderer constructor threw
BakeSetupFailed ==
  /\ bakePhase = "setup"
  /\ bakePhase' = "thrown"
  /\ UNCHANGED <<bakeIn, rowIdx, colIdx, canvas, views, readbackFailures>>

\* the loop is over: the canvas becomes the CanvasTexture that is returned
BakeReturn ==
  /\ bakePhase = "cells"
  /\ rowIdx > bakeIn.gridSize
  /\ bakePhase' = "done"
  /\ UNCHANGED <<bakeIn, rowIdx, colIdx, canvas, views, readbackFailures>>

IdleBake ==
  /\ bakeIn = [gridSize |-> 1, atlasSize |-> 1, octType |-> HEMI]
  /\ rowIdx = 0
  /\ colIdx = 0
  /\ canvas = [px \in Pixels(1) |-> 0]
  /\ views = <<>>
  /\ readbackFailures = 0
  /\ bakePhase = "idle"

\* generateAtlas called: its canvas created, transparent
InitBake ==
  /\ bakeIn \in {b \in [gridSize : 1..MaxBakeGrid, atlasSize : 1..MaxAtlasSize, octType : OctTypes] :
                   b.atlasSize >= b.gridSize}
  /\ rowIdx = 0
  /\ colIdx = 0
  /\ canvas = [px \in Pixels(bakeIn.atlasSize) |-> 0]
  /\ views = <<>>
  /\ readbackFailures = 0
  /\ bakePhase = "setup"

NextBake ==
  \/ BakeSetup /\ UNCHANGED <<atlasVars, mathVars, frameVars>>
  \/ BakeSetupFailed /\ UNCHANGED <<atlasVars, mathVars, frameVars>>
  \/ BakeCellComposited /\ UNCHANGED <<atlasVars, mathVars, frameVars>>
  \/ BakeCellReadbackFailed /\ UNCHANGED <<atlasVars, mathVars, frameVars>>
  \/ BakeReturn /\ UNCHANGED <<atlasVars, mathVars, frameVars>>

----------------------------------------------------------------------------
InitAtlas ==
  /\ atlasCache = EmptyMap
  /\ pendingAtlasPromises = EmptyMap
  /\ sourceId = [m \in Meshes |-> ""]
  /\ uuidCount = 0
  /\ bakes = <<>>
  /\ jobs = <<>>
  /\ inst = [i \in Instances |->
               [atlas |-> NullAtlas, error |-> NoError, isGenerating |-> FALSE,
                req |-> <<>>, src |-> 0, mesh |-> NoMesh]]
  /\ effects = 0

Init == InitAtlas /\ IdleMath /\ IdleFrame /\ IdleBake

Next ==
  \/ \E i \in Instances : EffectDisabled(i)
  \/ \E i \in Instances : EffectCached(i)
  \/ \E i \in Instances : EffectAttach(i)
  \/ \E i \in Instances : EffectGenerate(i)
  \/ BakeResolved
  \/ BakeRejected
  \/ BakeFinally
  \/ AttachedResolved
  \/ AttachedPassThrough
  \/ AttachedRejected

Spec == Init /\ [][Next]_vars

\* one promise job runs
DrainJob ==
  \/ BakeResolved \/ BakeRejected \/ BakeFinally
  \/ AttachedResolved \/ AttachedPassThrough \/ AttachedRejected

\* the job queue is drained: a queued promise job is eventually run
SpecLive == Init /\ [][Next]_vars /\ WF_vars(DrainJob)

InitOfMath == InitAtlas /\ InitMath /\ IdleFrame /\ IdleBake

InitOfFrame == InitAtlas /\ IdleMath /\ InitFrame /\ IdleBake

InitOfBake == InitAtlas /\ IdleMath /\ IdleFrame /\ InitBake

SpecBake == InitOfBake /\ [][NextBake]_vars

SpecFrame == InitOfFrame /\ [][NextFrame]_vars

SpecMath == InitOfMath /\ [][NextMath]_vars

----------------------------------------------------------------------------
(* Properties of the atlas hook *)

BakeIds == 1..Len(bakes)

\* a bake is in flight from the generateAtlas call until its atlasPromise settles
InFlight(b) == bakes[b].status = "pending"

\* a handler of bake b for instance i is still to run
Undelivered(i, b) ==
  \/ InFlight(b)
  \/ \E n \in 1..Len(jobs) :
       jobs[n].bake = b /\ jobs[n].inst = i /\ jobs[n].type # "finally"

\* this step runs the head job, which has type t
Runs(t) == jobs # <<>> /\ Head(jobs).type = t /\ effects' = effects

\* this step is an effect run of instance i
EffectRun(i) == effects' = effects + 1 /\ inst'[i] # inst[i]

\* C1: requests for one key while a bake for it is unsettled share that bake.
\* No two bakes for the same key are in flight at any time; a request whose
\* key has an unsettled bake starts no generateAtlas and is attached to that
\* bake's stored promise; and when the bake resolves, the originator and every
\* attached requester are handed the same payload (the texture of that one
\* bake), which is also the cache entry of the key.
C1_OneBakePerKey ==
  /\ [](\A b1, b2 \in BakeIds :
          (InFlight(b1) /\ InFlight(b2) /\ bakes[b1].key = bakes[b2].key) => b1 = b2)
  /\ [](\A i \in Instances :
          (inst[i].src # 0 /\ InFlight(inst[i].src)) =>
             /\ bakes[inst[i].src].key = inst[i].req
             /\ MapHas(pendingAtlasPromises, inst[i].req)
             /\ pendingAtlasPromises[inst[i].req] = inst[i].src)
  /\ [][\A i \in Instances : \A b \in BakeIds :
          (EffectRun(i) /\ InFlight(b) /\ inst'[i].req = bakes[b].key) =>
             (bakes' = [bakes EXCEPT ![b].reactions = Append(@, i)] /\ inst'[i].src = b)]_vars
  /\ [][Runs("generated") /\ bakes'[Head(jobs).bake].status = "resolved" =>
          /\ inst'[Head(jobs).inst].atlas.texture = Head(jobs).bake
          /\ atlasCache'[bakes[Head(jobs).bake].key].texture = Head(jobs).bake]_vars
  /\ [][Runs("attachedThen") /\ bakes[Head(jobs).bake].status = "resolved" =>
          /\ inst'[Head(jobs).inst].atlas.texture = Head(jobs).bake
          /\ inst'[Head(jobs).inst].atlas = atlasCache[bakes[Head(jobs).bake].key]]_vars

\* C1 witness: one bake has resolved, and both its originator and a second
\* instance that attached while it was pending hold its texture
C1_Witness ==
  \E b \in BakeIds : \E i, j \in Instances :
    /\ i # j
    /\ bakes[b].status = "resolved" /\ bakes[b].origin = i
    /\ inst[j].src = b /\ ~Undelivered(j, b)
    /\ inst[i].atlas.texture = b /\ inst[j].atlas.texture = b
    /\ Len(bakes) = 1

\* C2: a cache entry, once written, is never removed or replaced; a request
\* for a cached key is served that entry and starts no bake; no key has two
\* successful bakes.
C2_CacheEntryIsForever ==
  /\ [][\A k \in DOMAIN atlasCache :
          /\ MapHas(atlasCache', k)
          /\ atlasCache'[k] = atlasCache[k]]_vars
  /\ [][\A i \in Instances :
          (EffectRun(i) /\ inst'[i].req # <<>> /\ MapHas(atlasCache, inst'[i].req)) =>
             /\ inst'[i].atlas = atlasCache[inst'[i].req]
             /\ ~inst'[i].isGenerating
             /\ bakes' = bakes /\ jobs' = jobs]_vars
  /\ [](\A b1, b2 \in BakeIds :
          (bakes[b1].status = "resolved" /\ bakes[b2].status = "resolved"
             /\ bakes[b1].key = bakes[b2].key) => b1 = b2)
  /\ [](\A b \in BakeIds : InFlight(b) => ~MapHas(atlasCache, bakes[b].key))

\* C2 witness: after a success for one key and a failure for another, an
\* instance has been served the first key's entry from the cache
C2_Witness ==
  \E i \in Instances : \E b1, b2 \in BakeIds :
    /\ bakes[b1].status = "resolved" /\ bakes[b2].status = "rejected"
    /\ inst[i].req = bakes[b1].key /\ inst[i].src = 0
    /\ inst[i].atlas = atlasCache[bakes[b1].key]
    /\ bakes[b1].origin # i

\* C3: a failed bake hands its error to the originator and to every attached
\* requester (error set to that bake's error, isGenerating false), and each
\* such requester that has made no newer request stays with an error set and
\* isGenerating false; the failure writes nothing to the atlas cache; once its
\* finally has run the key is no longer pending, and the next request for the
\* key starts a fresh bake.
C3_FailureReachesEveryRequester ==
  /\ [][Runs("generated") /\ bakes'[Head(jobs).bake].status = "rejected" =>
          /\ inst'[Head(jobs).inst].error = Head(jobs).bake
          /\ ~inst'[Head(jobs).inst].isGenerating
          /\ atlasCache' = atlasCache]_vars
  /\ [][Runs("attachedCatch") =>
          /\ inst'[Head(jobs).inst].error = Head(jobs).bake
          /\ ~inst'[Head(jobs).inst].isGenerating
          /\ atlasCache' = atlasCache]_vars
  /\ [](\A b \in BakeIds : bakes[b].status = "rejected" =>
          \A n \in 1..Len(bakes[b].reactions) :
             \/ Undelivered(bakes[b].reactions[n], b)
             \/ inst[bakes[b].reactions[n]].src # b
             \/ inst[bakes[b].reactions[n]].error # NoError)
  /\ [](\A i \in Instances :
          (inst[i].src # 0 /\ bakes[inst[i].src].status = "rejected"
             /\ ~Undelivered(i, inst[i].src)) =>
               (inst[i].error # NoError /\ ~inst[i].isGenerating))
  /\ [](\A b \in BakeIds :
          (bakes[b].status = "rejected"
             /\ \A n \in 1..Len(jobs) : ~(jobs[n].type = "finally" /\ jobs[n].bake = b)) =>
               (~MapHas(pendingAtlasPromises, bakes[b].key)
                  \/ pendingAtlasPromises[bakes[b].key] # b))
  /\ [](\A b \in BakeIds : bakes[b].status = "rejected" =>
          (~MapHas(atlasCache, bakes[b].key) \/ atlasCache[bakes[b].key].texture # b))
  /\ [][\A i \in Instances :
          (EffectRun(i) /\ inst'[i].req # <<>>
             /\ ~MapHas(atlasCache, inst'[i].req)
             /\ ~MapHas(pendingAtlasPromises, inst'[i].req)) =>
               (Len(bakes') = Len(bakes) + 1 /\ bakes'[Len(bakes')].key = inst'[i].req
                  /\ bakes'[Len(bakes')].status = "pending")]_vars

\* C3 witness: a bake failed, its originator and an attached second instance
\* both hold its error with isGenerating false, its pending entry is gone, a
\* cached entry of another key is in place, and nothing is cached for the key
C3_Witness ==
  \E b \in BakeIds : \E i, j \in Instances :
    /\ i # j
    /\ bakes[b].status = "rejected" /\ bakes[b].origin = i
    /\ inst[i].error = b /\ ~inst[i].isGenerating
    /\ inst[j].src = b /\ inst[j].error = b /\ ~inst[j].isGenerating
    /\ ~MapHas(pendingAtlasPromises, bakes[b].key)
    /\ ~MapHas(atlasCache, bakes[b].key)
    /\ jobs = <<>>

\* C3 witness of the fresh bake is part of the reachable states: a second bake
\* for a key whose first bake failed
FreshBakeAfterFailure ==
  \E b1, b2 \in BakeIds :
    b1 < b2 /\ bakes[b1].key = bakes[b2].key /\ bakes[b1].status = "rejected"

----------------------------------------------------------------------------
(* Properties of the pure functions (SpecMath) *)

\* largest error, in UvOne units, that six-decimal truncation may leave in a
\* cross product with a drawn direction
RoundTripTol == 64

Cross(p, w) ==
  <<p[2] * w[3] - p[3] * w[2], p[3] * w[1] - p[1] * w[3], p[1] * w[2] - p[2] * w[1]>>

Dot(p, w) == p[1] * w[1] + p[2] * w[2] + p[3] * w[3]

\* p points the same way as w, up to the truncation tolerance
SameDirection(p, w) ==
  /\ Dot(p, w) > 0
  /\ \A k \in 1..3 : Abs(Cross(p, w)[k]) <= RoundTripTol

\* C5: a successful lookup writes three weights >= 0 that sum to 1 and three
\* indices that are vertices of the octahedral mesh of (octType, gridSize).
C5_WeightsAndIndicesValid ==
  ("sample" \in mDone /\ mSample.ok) =>
     /\ mSample.weights.den > 0
     /\ \A k \in 1..3 : mSample.weights.num[k] >= 0
     /\ mSample.weights.num[1] + mSample.weights.num[2] + mSample.weights.num[3]
          = mSample.weights.den
     /\ \A k \in 1..3 :
          mSample.indices[k] \in 0..((mIn.gridSize + 1) * (mIn.gridSize + 1) - 1)

\* C5 witness: a lookup for a lower-hemisphere direction on the largest grid
\* returned three strictly positive weights
C5_Witness ==
  /\ "sample" \in mDone /\ mSample.ok
  /\ mIn.gridSize = MaxGrid /\ mIn.dir[2] < 0
  /\ \A k \in 1..3 : mSample.weights.num[k] > 0

\* C6: for every direction the type covers, folding the encoded UV with the
\* geometry builder's fold of that type gives back the direction.
C6_RoundTrip ==
  ("trip" \in mDone /\ mIn.dir # <<0, 0, 0>> /\ (mIn.octType = HEMI => mIn.dir[2] >= 0)) =>
     SameDirection(mTrip, mIn.dir)

\* the corner lattice points of grid cell n (0-based, row by row)
CellCorners(n, gridSize) ==
  LET x == n % gridSize
      y == n \div gridSize
      xLen == gridSize + 1
  IN {xLen * y + x, xLen * y + x + 1, xLen * (y + 1) + x, xLen * (y + 1) + x + 1}

TriangleAt(indices, t) == {indices[3 * t + 1], indices[3 * t + 2], indices[3 * t + 3]}

\* C7: (N+1)^2 points, 6 N^2 indices, every triangle three distinct corners of
\* one cell, and the two triangles of a cell cover its four corners.
C7_MeshCountsAndTriangles ==
  "mesh" \in mDone =>
     LET n == mIn.gridSize IN
     /\ mMesh.ok
     /\ Len(mMesh.pntPlane) = (n + 1) * (n + 1)
     /\ Len(mMesh.pntOct) = (n + 1) * (n + 1)
     /\ Len(mMesh.indices) = 6 * n * n
     /\ \A c \in 0..(n * n - 1) :
          /\ Cardinality(TriangleAt(mMesh.indices, 2 * c)) = 3
          /\ Cardinality(TriangleAt(mMesh.indices, 2 * c + 1)) = 3
          /\ TriangleAt(mMesh.indices, 2 * c) \cup TriangleAt(mMesh.indices, 2 * c + 1)
               = CellCorners(c, n)

\* C7 witness: the mesh of the one-cell grid, where the alternation is NaN
C7_Witness ==
  /\ "mesh" \in mDone /\ mIn.gridSize = 1
  /\ Len(mMesh.indices) = 6 /\ Len(mMesh.pntOct) = 4

----------------------------------------------------------------------------
(* Properties of the per-frame lookup and of getSamplingCache (SpecFrame)  *)

\* the step is a useFrame callback that reached the threshold test
FrameAtThreshold == frame'.kind # "none" /\ Billboard /\ lastDirectionRef # 0

\* the step wrote the lookup of the view direction to the uniforms and
\* stored the direction
FrameUpdated ==
  LET res == sampleOctahedralDirection(GreatCircle[frame'.dir], fSampling.cache)
  IN /\ res.ok
     /\ nodeMaterial'.faceIndices = res.indices
     /\ nodeMaterial'.faceWeights = res.weights
     /\ lastDirectionRef' = frame'.dir

FrameUnchanged == UNCHANGED <<nodeMaterial, faceIndicesRef, faceWeightsRef, lastDirectionRef>>

\* C4: in a frame with a stored last direction, a view direction whose angle
\* from the stored one is below directionThresholdRadians leaves the uniforms
\* and the stored direction unchanged, and an angle at or above the threshold
\* runs the lookup, writes the uniforms and stores the direction.
C4_Hysteresis ==
  [][FrameAtThreshold =>
       IF DirAngle(lastDirectionRef, frame'.dir) < fProps.threshold
         THEN FrameUnchanged
         ELSE FrameUpdated]_vars

\* away from the boundary the frame does what C4 says: strictly below the
\* threshold nothing changes, strictly above the clamped threshold it updates
HysteresisOffBoundary ==
  [][FrameAtThreshold =>
       /\ DirAngle(lastDirectionRef, frame'.dir) < fProps.threshold => FrameUnchanged
       /\ DirAngle(lastDirectionRef, frame'.dir) > Max(fProps.threshold, 0) => FrameUpdated]_vars

\* at the boundary the frame is skipped
HysteresisAtBoundary ==
  [][(FrameAtThreshold /\ DirAngle(lastDirectionRef, frame'.dir) = Max(fProps.threshold, 0))
       => FrameUnchanged]_vars

\* a frame at exactly the threshold angle has been skipped
BoundaryFrameSkipped ==
  /\ frame.kind = "skipped"
  /\ DirAngle(frame.last, frame.dir) = fProps.threshold

\* C8: getSamplingCache builds the cache of an (octType, gridSize) pair once;
\* every later call with the pair returns that same object, and its content
\* is never changed.
C8_SamplingCacheMemoized ==
  /\ [][\A k \in DOMAIN samplingCache :
          MapHas(samplingCache', k) /\ samplingCache'[k] = samplingCache[k]]_vars
  /\ [](\A k \in DOMAIN samplingCache : samplingCache[k].cache = NewSamplingCache(k[1], k[2]))
  /\ [](\A j, k \in DOMAIN samplingCache : samplingCache[j].id = samplingCache[k].id => j = k)
  /\ [](cacheBuilds = Cardinality(DOMAIN samplingCache))
  /\ [](fSampling = samplingCache[SamplingKey(fProps.octType, fProps.gridSize)])

\* the instance came back to a pair whose cache was built before another
\* one, and the call was served from the map with the first object
C8_Witness ==
  /\ lastCall.hit
  /\ Cardinality(DOMAIN samplingCache) = 2
  /\ lastCall.key = SamplingKey(fProps.octType, fProps.gridSize)
  /\ fSampling.id = 1
  /\ fSampling = samplingCache[lastCall.key]
  /\ frame.kind = "updated"

----------------------------------------------------------------------------
(* Properties of the bake loop (SpecBake)                                  *)

LatticePoints == 1..((bakeIn.gridSize + 1) * (bakeIn.gridSize + 1))

\* the folded octahedron point of lattice point (row, col)
LatticeDirection(row, col) ==
  buildOctahedralMesh(bakeIn.octType, bakeIn.gridSize).pntOct[1 + row * (bakeIn.gridSize + 1) + col]

\* integer vectors of one direction
Parallel(p, w) == Dot(p, w) > 0 /\ Cross(p, w) = <<0, 0, 0>>

BakeComplete == bakePhase = "done" /\ readbackFailures = 0

\* C9: every cell (rowIdx, colIdx) of a bake is rendered from the folded
\* octahedron point of its own lattice point, index rowIdx*(gridSize+1)+colIdx
\* of the point array, and a finished bake has rendered every lattice
\* point's direction exactly once.
C9_CellDirectionIsLatticePoint ==
  /\ \A i \in DOMAIN views :
       /\ views[i].flatIdx = views[i].row * (bakeIn.gridSize + 1) + views[i].col
       /\ Parallel(views[i].viewDir, LatticeDirection(views[i].row, views[i].col))
  /\ bakePhase = "done" =>
       \A k \in LatticePoints : Cardinality({i \in DOMAIN views : views[i].flatIdx = k - 1}) = 1

\* the first row of a bake does use its own lattice points
FirstRowDirections ==
  \A i \in DOMAIN views : views[i].row = 0 =>
    Parallel(views[i].viewDir, LatticeDirection(views[i].row, views[i].col))

\* a finished bake has rendered some point of the array twice and left
\* the last gridSize points out
BakeRepeatsAndSkips ==
  /\ bakePhase = "done"
  /\ \E i, j \in DOMAIN views : i # j /\ views[i].flatIdx = views[j].flatIdx
  /\ \A i \in DOMAIN views : views[i].flatIdx <= bakeIn.gridSize * (bakeIn.gridSize + 1)

\* the pixels of lattice point k in the atlas image
PixelsOf(k) == {px \in DOMAIN canvas : canvas[px] = k}

\* C10: a bake with no read-back failure leaves (gridSize+1)^2 rendered
\* cells in the atlas image, each at its own rectangle of side
\* floor(atlasSize/gridSize) inside the image, no rectangle overwriting
\* another; gridSize = 1 gives exactly 4 non-empty cells.
C10_AllCellsInAtlas ==
  BakeComplete =>
    LET size == cellSize(bakeIn.atlasSize, bakeIn.gridSize) IN
    /\ Len(views) = (bakeIn.gridSize + 1) * (bakeIn.gridSize + 1)
    /\ \A i \in DOMAIN views :
         /\ views[i].pixelX + size <= bakeIn.atlasSize
         /\ views[i].pixelY + size <= bakeIn.atlasSize
    /\ \A k \in LatticePoints : Cardinality(PixelsOf(k)) = size * size
    /\ bakeIn.gridSize = 1 => Cardinality({k \in LatticePoints : PixelsOf(k) # {}}) = 4

\* what a complete bake does leave: the gridSize^2 cells of rows and columns
\* below gridSize, each whole; the cells of row or column gridSize start at
\* pixel atlasSize and leave no pixel
BakeLeavesInnerCells ==
  BakeComplete =>
    LET size == cellSize(bakeIn.atlasSize, bakeIn.gridSize) IN
    \A i \in DOMAIN views :
      LET k == 1 + views[i].row * (bakeIn.gridSize + 1) + views[i].col IN
      IF views[i].row < bakeIn.gridSize /\ views[i].col < bakeIn.gridSize
        THEN Cardinality(PixelsOf(k)) = size * size
        ELSE PixelsOf(k) = {} /\ (views[i].pixelX = bakeIn.atlasSize \/ views[i].pixelY = bakeIn.atlasSize)

\* a complete bake of gridSize 1 whose image holds one rendered cell
GridOneBakeHasOneCell ==
  /\ BakeComplete
  /\ bakeIn.gridSize = 1
  /\ Cardinality({k \in LatticePoints : PixelsOf(k) # {}}) = 1

\* the canvas of a bake in which the first k cells were all composited
RECURSIVE CanvasAfterCells(_)
CanvasAfterCells(k) ==
  IF k = 0 THEN [px \in Pixels(bakeIn.atlasSize) |-> 0]
  ELSE LET row == (k - 1) \div (bakeIn.gridSize + 1)
           col == (k - 1) % (bakeIn.gridSize + 1)
       IN putImageData(CanvasAfterCells(k - 1), k,
                       pixelAt(col, bakeIn.gridSize, bakeIn.atlasSize),
                       pixelAt(row, bakeIn.gridSize, bakeIn.atlasSize),
                       cellSize(bakeIn.atlasSize, bakeIn.gridSize))

\* the lattice points whose read-back failed
FailedCells == {1 + views[i].row * (bakeIn.gridSize + 1) + views[i].col : i \in {j \in DOMAIN views : ~views[j].put}}

\* C11: a render or read-back failure of one cell skips only that cell and
\* leaves it transparent; every other cell is still rendered and composited
\* as in a bake without failure, and generateAtlas returns its texture
\* instead of throwing.
C11_FailedCellIsSkippedAlone ==
  /\ bakePhase = "thrown" => views = <<>>
  /\ bakePhase = "done" =>
       /\ Len(views) = Cardinality(LatticePoints)
       /\ Cardinality(FailedCells) = readbackFailures
       /\ canvas = [px \in DOMAIN canvas |->
                      LET full == CanvasAfterCells(Cardinality(LatticePoints))
                      IN IF full[px] \in FailedCells THEN 0 ELSE full[px]]

\* a bake of gridSize 2 returned although the read-back of cell (0, 1) failed
C11_Witness ==
  /\ bakePhase = "done"
  /\ bakeIn.gridSize = 2
  /\ readbackFailures = 1
  /\ \E i \in DOMAIN views : ~views[i].put /\ views[i].row = 0 /\ views[i].col = 1
  /\ \E px \in DOMAIN canvas : canvas[px] = 0
  /\ \E px \in DOMAIN canvas : canvas[px] = 1

----------------------------------------------------------------------------
(* Properties of the consumer's state after a bake settles (Spec)          *)

\* the bake of instance i's current request was rejected and the rejection
\* has reached i's handler
CurrentBakeFailed(i) ==
  /\ inst[i].src # 0
  /\ bakes[inst[i].src].status = "rejected"
  /\ ~Undelivered(i, inst[i].src)

\* C12: after the bake for an instance's current key fails, the instance
\* renders the placeholder and holds the error, from every prior state,
\* also one in which it displayed the atlas of an earlier key.
C12_FailureLeavesPlaceholder ==
  \A i \in Instances :
    CurrentBakeFailed(i) => RendersPlaceholder(i) /\ inst[i].error = inst[i].src

\* an instance whose current bake failed renders the billboard with the
\* atlas of another, earlier bake
FailedInstanceShowsEarlierAtlas ==
  \E i \in Instances :
    /\ CurrentBakeFailed(i)
    /\ ~RendersPlaceholder(i)
    /\ inst[i].atlas.texture # inst[i].src
    /\ inst[i].error = inst[i].src

\* instance i requested bake b, as originator or attached
Awaits(i, b) == b <= Len(bakes) /\ inst[i].src = b

\* instance i holds the payload of the resolved bake b and shows it
Delivered(i, b) ==
  /\ inst[i].atlas = AtlasPayload(b)
  /\ ~inst[i].isGenerating
  /\ ~RendersPlaceholder(i)

\* C13: while the bake of an instance's key is pending the instance is
\* generating and renders the placeholder; once the bake resolves, every
\* instance that started it or attached to it eventually holds the resolved
\* payload with isGenerating false and renders the billboard.
C13_PlaceholderThenBillboard ==
  /\ [](\A i \in Instances, b \in BakeIds :
          (Awaits(i, b) /\ Undelivered(i, b)) =>
            inst[i].isGenerating /\ RendersPlaceholder(i))
  /\ []<>(\A i \in Instances, b \in BakeIds :
            (Awaits(i, b) /\ bakes[b].status = "resolved") => Delivered(i, b))

\* an attached requester renders the billboard with the payload of the bake
\* another instance started
C13_Witness ==
  \E i \in Instances, b \in BakeIds :
    /\ Awaits(i, b)
    /\ bakes[b].status = "resolved"
    /\ bakes[b].origin # i
    /\ inst[i].atlas = AtlasPayload(b)
    /\ ~RendersPlaceholder(i)
    /\ ~RendersPlaceholder(bakes[b].origin)
    /\ jobs = <<>>

----------------------------------------------------------------------------
(* Properties of configuration errors (SpecFrame)                          *)

\* a documented configuration: octType HEMI or FULL, gridSize >= 1
ConfigOK(key) == key[1] \in OctTypes /\ key[2] >= 1

\* C14: buildOctahedralMesh, and getSamplingCache through it, called with an
\* octType outside {HEMI, FULL} or a gridSize <= 0 fails with an error,
\* returns no mesh or cache and stores nothing in the memo table.
C14_ConfigErrorsAreFatal ==
  /\ \A c \in BadConfigs : ~buildOctahedralMesh(c[1], c[2]).ok
  /\ ~ConfigOK(lastCall.key) => lastCall.threw
  /\ \A k \in DOMAIN samplingCache : ConfigOK(k)

\* the octType half of C14: an unknown octType throws and stores nothing
UnknownTypeFailsFast ==
  /\ \A c \in BadConfigs : c[1] \notin OctTypes => ~buildOctahedralMesh(c[1], c[2]).ok
  /\ lastCall.key[1] \notin OctTypes => lastCall.threw
  /\ \A k \in DOMAIN samplingCache : k[1] \in OctTypes

\* an unknown octType was passed and the call threw
UnknownTypeThrew == lastCall.key[1] \notin OctTypes /\ lastCall.threw

\* getSamplingCache(HEMI, 0) returned a cache with no cell, built from a mesh
\* of one NaN point and no triangle, and the memo table holds it
GridZeroCacheStored ==
  /\ lastCall.key = SamplingKey(HEMI, 0)
  /\ ~lastCall.threw
  /\ MapHas(samplingCache, lastCall.key)
  /\ samplingCache[lastCall.key].cache.cells = <<>>
  /\ buildOctahedralMesh(HEMI, 0).pntOct = << <<NaNCoord, NaNCoord, NaNCoord>> >>
  /\ buildOctahedralMesh(HEMI, 0).indices = <<>>

----------------------------------------------------------------------------
(* Properties of the direction encoding and the barycentric weights        *)
(* (SpecMath)                                                              *)

\* C15: encodeDirectionToOctUV maps every direction, upper or lower
\* hemisphere, axis-aligned or the zero vector, to a UV inside the unit
\* square: 0 <= u <= 1 and 0 <= v <= 1.
C15_EncodedUVInUnitSquare ==
  "trip" \in mDone =>
    LET uv == encodeDirectionToOctUV(mIn.dir)
    IN /\ 0 <= uv[1] /\ uv[1] <= UvOne
       /\ 0 <= uv[2] /\ uv[2] <= UvOne

\* the direction (0, -1, 0) was encoded, to the corner (1, 1)
C15_Witness ==
  /\ "trip" \in mDone
  /\ mIn.dir = <<0, -1, 0>>
  /\ encodeDirectionToOctUV(mIn.dir) = <<UvOne, UvOne>>

\* the triangle has no area
Degenerate(triangleUV) ==
  (triangleUV[2][1] - triangleUV[1][1]) * (triangleUV[3][2] - triangleUV[1][2])
    = (triangleUV[3][1] - triangleUV[1][1]) * (triangleUV[2][2] - triangleUV[1][2])

\* weights that are defined and not negative
ProperWeights(r) ==
  /\ r.den > 0
  /\ \A k \in 1..3 : r.num[k] >= 0
  /\ r.num[1] + r.num[2] + r.num[3] = r.den

\* C16: computeBarycentric2D gives exactly (1/3, 1/3, 1/3) for a degenerate
\* triangle and whenever the clamped components sum to 0 or less, and in
\* every case weights that are defined and not negative.
C16_DegenerateGivesThirds ==
  "bary" \in mDone =>
    /\ Degenerate(mBary.triangleUV) => mBary.weights = EqualThirds
    /\ (\A k \in 1..3 : mIn.dir[k] <= 0) => mBary.tail = EqualThirds
    /\ ProperWeights(mBary.weights)
    /\ ProperWeights(mBary.tail)

\* a collinear triangle was given and the result is the equal thirds
C16_Witness ==
  /\ "bary" \in mDone
  /\ mBary.triangleUV = << <<0, 1>>, <<1, 0>>, <<2, -1>> >>
  /\ mBary.weights = EqualThirds
  /\ mIn.dir = <<-1, -2, 0>>
  /\ mBary.tail = EqualThirds

----------------------------------------------------------------------------
(* Properties of the atlas cache key (Spec)                                *)

\* instance i has been served an atlas for its current request, from the
\* cache or by the bake it awaited
Served(i) ==
  /\ inst[i].req # <<>>
  /\ inst[i].atlas # NullAtlas
  /\ ~inst[i].isGenerating
  /\ inst[i].error = NoError

\* C17: the cache key identifies the source mesh: a mesh keeps its key, two
\* different source meshes never get the same key, and no instance is served
\* an atlas baked from a mesh other than the one it requested.
C17_KeyIdentifiesMesh ==
  /\ \A m1, m2 \in Meshes :
       (sourceId[m1] # "" /\ sourceId[m2] # "" /\ m1 # m2) => sourceId[m1] # sourceId[m2]
  /\ \A i \in Instances :
       Served(i) => bakes[inst[i].atlas.texture].mesh = inst[i].mesh

\* the stable half of C17: an assigned identifier never changes, and an
\* instance is served the atlas stored or baked under its own key
KeyIsStable ==
  /\ [][\A m \in Meshes : sourceId[m] # "" => sourceId'[m] = sourceId[m]]_vars
  /\ [](\A i \in Instances : Served(i) => bakes[inst[i].atlas.texture].key = inst[i].req)

\* meshes that differ in name, or have none, get different identifiers
NamesApartKeysApart ==
  \A m1, m2 \in Meshes :
    (sourceId[m1] # "" /\ sourceId[m2] # "" /\ m1 # m2 /\ MeshName(m1) # MeshName(m2))
      => sourceId[m1] # sourceId[m2]

\* an instance that requested mesh "treeB" is served, from the cache, the
\* atlas baked from mesh "tree"
ServedAnotherMeshesAtlas ==
  \E i \in Instances :
    /\ Served(i)
    /\ inst[i].mesh = "treeB"
    /\ bakes[inst[i].atlas.texture].mesh = "tree"
    /\ MapHas(atlasCache, inst[i].req)

----------------------------------------------------------------------------
(* End-to-end: lookup index -> shader cell -> baked cell (SpecBake)        *)

\* the vertex indices the lookup returns for the drawn directions
SampledIndices ==
  LET cache == NewSamplingCache(bakeIn.octType, bakeIn.gridSize)
  IN UNION { {sampleOctahedralDirection(w, cache).indices[k] : k \in 1..3} : w \in Directions }

\* the baker composited into cell rc, inside the image, the render of
\* octahedron point i
BakedFrom(rc, i) ==
  \E n \in DOMAIN views :
    /\ views[n].row = rc[1] /\ views[n].col = rc[2]
    /\ views[n].put
    /\ views[n].flatIdx = i
    /\ PixelsOf(1 + rc[1] * (bakeIn.gridSize + 1) + rc[2]) # {}

\* C18: for every vertex index i the lookup can return, the cell the shader
\* addresses for i, (floor(i / gridSize), i mod gridSize), lies inside the
\* atlas and holds the image the baker rendered from octahedron point i.
C18_IndexAddressesItsBakedCell ==
  BakeComplete =>
    \A i \in SampledIndices :
      /\ ShaderCell(i, bakeIn.gridSize)[1] < bakeIn.gridSize
      /\ BakedFrom(ShaderCell(i, bakeIn.gridSize), i)

\* the indices below gridSize^2 do address the cell baked from their point
LowIndicesAddressTheirCell ==
  BakeComplete =>
    \A i \in SampledIndices :
      i < bakeIn.gridSize * bakeIn.gridSize => BakedFrom(ShaderCell(i, bakeIn.gridSize), i)

\* the lookup returns an index whose shader row is below the last atlas row
IndexAddressedOutsideAtlas ==
  /\ BakeComplete
  /\ \E i \in SampledIndices :
       /\ i >= bakeIn.gridSize * bakeIn.gridSize
       /\ ShaderCell(i, bakeIn.gridSize)[1] >= bakeIn.gridSize
       /\ ~BakedFrom(ShaderCell(i, bakeIn.gridSize), i)

----------------------------------------------------------------------------
(* Triangle selection (SpecMath)                                           *)

\* the local point lies on the diagonal the cell is split along
OnDiagonal ==
  IF mSel.cell.isBackslash THEN mSel.localU = mSel.localV
  ELSE mSel.localU + mSel.localV = UvOne

\* C19: the triangle sampleOctahedralDirection selects is the one of the
\* cell's two triangles that contains the local point: the second iff
\* localU > localV in a backslash cell, iff localU + localV > 1 in the other
\* orientation; the point's barycentric coordinates against the selected
\* triangle are all non-negative before the clamp, so the clamp does not
\* alter the weights; the other triangle contains the point only on the
\* shared diagonal.
C19_SelectedTriangleContainsPoint ==
  "select" \in mDone =>
    /\ mSel.picked = 2 <=>
         IF mSel.cell.isBackslash THEN mSel.localU > mSel.localV
         ELSE mSel.localU + mSel.localV > UvOne
    /\ \A k \in 1..3 : mSel.uvw[k] >= 0
    /\ mSel.weights = [num |-> mSel.uvw, den |-> mSel.uvw[1] + mSel.uvw[2] + mSel.uvw[3]]
    /\ (\A k \in 1..3 : mSel.other[k] >= 0) => OnDiagonal

\* a point strictly inside the second triangle of a forward-slash cell, with
\* localU at the clamp 0.999999
C19_Witness ==
  /\ "select" \in mDone
  /\ ~mSel.cell.isBackslash
  /\ mSel.picked = 2
  /\ mSel.localU = LocalMax
  /\ \A k \in 1..3 : mSel.uvw[k] > 0

\* a point strictly inside the second triangle of a backslash cell
SelectedSecondOfBackslash ==
  /\ "select" \in mDone
  /\ mSel.cell.isBackslash
  /\ mSel.picked = 2
  /\ \A k \in 1..3 : mSel.uvw[k] > 0

----------------------------------------------------------------------------
(* Structure of the sampling cache (SpecMath)                              *)

\* the geometry builder tiled cell n of the built mesh with the backslash
\* diagonal: its six indices are a, b, c, c, d, a
TiledBackslash(n) ==
  LET N == mIn.gridSize
      row == (n - 1) \div N
      col == (n - 1) % N
      a == (N + 1) * row + col
      b == (N + 1) * (row + 1) + col
  IN [k \in 1..6 |-> mMesh.indices[6 * (n - 1) + k]] = <<a, b, b + 1, b + 1, a + 1, a>>

\* <<column offset, row offset>> of vertex index idx from the first corner
\* of cell n
CellLocal(idx, n) ==
  LET N == mIn.gridSize
  IN <<(idx % (N + 1)) - ((n - 1) % N), (idx \div (N + 1)) - ((n - 1) \div N)>>

\* C20: in a built sampling cache, for every cell: isBackslash is true
\* exactly when the geometry builder tiled the cell a, b, c, c, d, a; the
\* cell holds two triangles whose indices are corners of that cell; and the
\* k-th UV corner of each triangle is the cell-local position of the
\* triangle's k-th vertex index.
C20_CacheCellsMirrorTheTiling ==
  "select" \in mDone =>
    /\ DOMAIN mSel.cache.cells = 1..(mIn.gridSize * mIn.gridSize)
    /\ \A n \in DOMAIN mSel.cache.cells :
         LET cell == mSel.cache.cells[n]
         IN /\ cell.isBackslash <=> TiledBackslash(n)
            /\ cell.isBackslash <=>
                 (octPlaneAlt((n - 1) % mIn.gridSize, (n - 1) \div mIn.gridSize,
                              mIn.gridSize \div 2, mIn.gridSize \div 2) = mIn.octType)
            /\ Len(cell.triangles) = 2
            /\ \A t \in 1..2, k \in 1..3 :
                 /\ CellLocal(cell.triangles[t].indices[k], n) \in {0, 1} \X {0, 1}
                 /\ cell.triangles[t].uv[k] = CellLocal(cell.triangles[t].indices[k], n)

\* a built cache of more than one cell that has cells of both orientations
C20_Witness ==
  /\ "select" \in mDone
  /\ mIn.gridSize >= 2
  /\ \E n, m \in DOMAIN mSel.cache.cells :
       /\ mSel.cache.cells[n].isBackslash /\ TiledBackslash(n)
       /\ ~mSel.cache.cells[m].isBackslash /\ ~TiledBackslash(m)

\* the one cell of a gridSize 1 cache is forward-slash for both types
GridOneCellIsSlash ==
  ("select" \in mDone /\ mIn.gridSize = 1) => ~mSel.cache.cells[1].isBackslash

----------------------------------------------------------------------------
(* Uniforms against the stored direction (SpecFrame)                       *)

\* the lookup result for the stored last view direction
LookupOfLast == sampleOctahedralDirection(GreatCircle[lastDirectionRef], fSampling.cache)

\* C21: whenever lastDirectionRef is non-null, the indices and weights in
\* the uniforms of the current material are the lookup result for that
\* direction.
C21_UniformsAreLookupOfLast ==
  (lastDirectionRef # 0 /\ nodeMaterial.present) =>
    /\ nodeMaterial.faceIndices = LookupOfLast.indices
    /\ nodeMaterial.faceWeights = LookupOfLast.weights

\* the refs the frame writes through do hold the lookup result for the
\* stored direction
RefsAreLookupOfLast ==
  lastDirectionRef # 0 =>
    /\ faceIndicesRef = LookupOfLast.indices
    /\ faceWeightsRef = LookupOfLast.weights

\* a frame that runs the lookup leaves the uniforms on its result
UpdatedFrameSetsUniforms ==
  frame.kind = "updated" =>
    /\ lastDirectionRef = frame.dir
    /\ nodeMaterial.faceIndices = LookupOfLast.indices
    /\ nodeMaterial.faceWeights = LookupOfLast.weights

\* a frame was skipped by the hysteresis check while the material, recreated
\* since the stored direction was sampled, holds its initial uniforms
SkippedFrameOnFreshMaterial ==
  /\ frame.kind = "skipped"
  /\ lastDirectionRef # 0
  /\ nodeMaterial = NewMaterial(fProps.octType, fProps.gridSize)
  /\ nodeMaterial.faceWeights # LookupOfLast.weights

----------------------------------------------------------------------------
(* The instance's state against its current key (Spec)                     *)

\* every bake has settled and every handler has run
AllSettled ==
  /\ jobs = <<>>
  /\ \A b \in BakeIds : ~InFlight(b)

\* instance i is enabled with a mesh: its last effect built a key
Requests(i) == inst[i].req # <<>>

\* every queued handler that sets an instance's state belongs to the bake
\* that instance currently requests
HandlersAreCurrent ==
  \A n \in 1..Len(jobs) :
    jobs[n].type # "finally" => inst[jobs[n].inst].src = jobs[n].bake

\* C22: an instance's atlas state reflects only the key it currently
\* requests: no handler of a bake the instance no longer requests is left to
\* overwrite its state, and after all bakes have settled the atlas of every
\* enabled instance is the cache entry of its current key.
C22_AtlasReflectsCurrentKey ==
  /\ HandlersAreCurrent
  /\ AllSettled =>
       \A i \in Instances :
         Requests(i) => HasCached(inst[i].req) /\ inst[i].atlas = atlasCache[inst[i].req]

\* when the instance's own request was served, from the cache or by a bake
\* that resolved, its atlas is the cache entry of its current key
ServedRequestGivesCacheEntry ==
  AllSettled =>
    \A i \in Instances :
      (Requests(i) /\ (inst[i].src = 0 \/ bakes[inst[i].src].status = "resolved")) =>
        /\ HasCached(inst[i].req)
        /\ inst[i].atlas = atlasCache[inst[i].req]
        /\ ~inst[i].isGenerating

\* a disabled or meshless instance holds no atlas once everything settled
DisabledHoldsNoAtlas ==
  AllSettled => \A i \in Instances : ~Requests(i) => inst[i].atlas = NullAtlas

\* all bakes have settled and an enabled instance holds the cache entry of
\* a key other than its current one, which has no entry
SettledOnAnotherKeysAtlas ==
  /\ AllSettled
  /\ \E i \in Instances :
       /\ Requests(i)
       /\ ~HasCached(inst[i].req)
       /\ \E k \in DOMAIN atlasCache : k # inst[i].req /\ inst[i].atlas = atlasCache[k]

====
